---- MODULE Spec2Model ----
(***************************************************************************)
(* Model of the user-account service: the FastAPI routers (login,          *)
(* register), UserManagementService, UserRepository over one SQLAlchemy    *)
(* AsyncSession per request, the PostgreSQL users table with its unique    *)
(* constraints, the two connection pools (SQLAlchemy's and asyncpg's), and *)
(* JWTHandler / PasswordManager.                                           *)
(*                                                                         *)
(* Python values are modelled as they behave: an object is a function from *)
(* attribute names to values and reading an attribute it does not have     *)
(* raises AttributeError; a call that passes more positional arguments     *)
(* than the signature takes raises TypeError.                              *)
(***************************************************************************)
EXTENDS Integers, Sequences, FiniteSets, TLC

----------------------------------------------------------------------------
(* Bounds of the model *)

\* request slots (one independently scheduled request handler each)
NumRequests == 3
\* slots that issue account requests under Spec
MaxRacing == 2
\* The source sets pool_size=10 and max_overflow=20 (bootstrap.py:20-21) and
\* asyncpg's max_size=20 (database.py:38); the model scales the three down
\* so that NumRequests requests can exhaust either pool.
pool_size == 1
max_overflow == 1
max_size == 2
\* QueuePool's wait for a free connection, in clock ticks (SQLAlchemy's
\* default pool_timeout, which create_async_engine is not told to change)
pool_timeout == 2
\* the clock of the pool model stops here
MaxWait == 3
\* salts gensalt() can draw
NumSalts == 1

Requests == 1..NumRequests
Salts == 1..NumSalts

Usernames == {"alice", "bob"}
Emails == {"a@x.com", "b@x.com"}
RawPasswords == {"pw1", "pw2"}

----------------------------------------------------------------------------
(* Python object model *)

\* getattr(obj, name): the value, or AttributeError
HasAttr(obj, name) == name \in DOMAIN obj

\* how a call ends: it returns a value or raises an exception
NoArg == [none |-> TRUE]
NoResult == [state |-> "pending"]
Returned(v) == [state |-> "returned", value |-> v]
Raised(e, d) == [state |-> "raised", exc |-> e, detail |-> d]

\* columns of the ORM class User (models/orm.py)
UserColumns == {"id", "username", "email", "password_hash"}

\* Strings that carry a credential: what a client typed ("plain") or an
\* encoded bcrypt hash with its salt.
Plain(p) == [fmt |-> "plain", salt |-> 0, text |-> p]
Bcrypt(s, p) == [fmt |-> "bcrypt", salt |-> s, text |-> p]

\* PasswordManager.hash_password with the salt gensalt() drew
hash_password(password, s) == Bcrypt(s, password.text)

\* PasswordManager.verify_password: bcrypt.checkpw re-hashes the provided
\* password with the salt embedded in the stored hash; a stored value that
\* is no bcrypt hash makes checkpw raise ValueError ("Invalid salt").
verify_password(stored_password, provided_password) ==
    IF stored_password.fmt # "bcrypt"
    THEN [raised |-> TRUE, exc |-> "ValueError", value |-> FALSE]
    ELSE [raised |-> FALSE, exc |-> "",
          value |-> /\ provided_password.fmt = "plain"
                    /\ provided_password.text = stored_password.text]

----------------------------------------------------------------------------
(* JWTHandler (utils/security.py) over PyJWT; the clock counts minutes *)

\* config/settings.py: JWT_EXPIRE_MINUTES, default 60
JWT_EXPIRE_MINUTES == 60
\* tokens are issued while the clock is at most MaxIssueTime
MaxIssueTime == 1
MaxTime == MaxIssueTime + JWT_EXPIRE_MINUTES + 2

\* the key file's text, as config/settings.py reads it, and other keys
JWT_SECRET_KEY == "azE="
JWT_ALGORITHM == "HS256"
SecretKeys == {"azE=", "azI="}
Algorithms == {"HS256", "HS384"}

\* base64.b64decode of a key text: the key bytes
b64decode(text) == IF text = "azE=" THEN "k1" ELSE "k2"

\* JSON values of a payload
JStr(s) == [str |-> s]
JNum(n) == [num |-> n]
IsNum(v) == DOMAIN v = {"num"}
\* int(v) succeeds on a number and on a string of digits
IsIntLike(v) == IsNum(v) \/ v = JStr("0")
IntOf(v) == IF IsNum(v) THEN v.num ELSE 0

JWTHandlerOf(secret_key, algorithm) ==
    [secret_key |-> secret_key, algorithm |-> algorithm]

\* the HMAC of the signing input under a key: equal exactly when key,
\* algorithm and payload are
Sign(key, alg, payload) == [key |-> key, alg |-> alg, msg |-> payload]

NoToken == [malformed |-> TRUE]

\* encode as it would be were data left out of the payload
encodeDropsData(self, data, t_exp, t_iat) ==
    LET payload == [k \in {"exp", "iat"} |->
                      IF k = "exp" THEN JNum(t_exp + JWT_EXPIRE_MINUTES)
                      ELSE JNum(t_iat)]
    IN [malformed |-> FALSE,
        alg |-> self.algorithm,
        payload |-> payload,
        sig |-> Sign(b64decode(self.secret_key), self.algorithm, payload)]

\* JWTHandler.encode: the payload is data with exp and iat set (a key of
\* data named exp or iat is overwritten); t_exp and t_iat are the two
\* readings of datetime.now
encode(self, data, t_exp, t_iat) ==
    LET payload == [k \in DOMAIN data \cup {"exp", "iat"} |->
                      IF k = "exp" THEN JNum(t_exp + JWT_EXPIRE_MINUTES)
                      ELSE IF k = "iat" THEN JNum(t_iat)
                      ELSE data[k]]
    IN [malformed |-> FALSE,
        alg |-> self.algorithm,
        payload |-> payload,
        sig |-> Sign(b64decode(self.secret_key), self.algorithm, payload)]

\* jwt.decode(token, key, algorithms=[alg]) as PyJWT validates: segments,
\* algorithm, signature, then the registered claims iat, nbf, exp, aud
PyJWTDecode(token, key, algorithms, t) ==
    IF token.malformed THEN Raised("DecodeError", "malformed")
    ELSE IF token.alg \notin algorithms
    THEN Raised("InvalidAlgorithmError", "bad-signature")
    ELSE IF token.sig # Sign(key, token.alg, token.payload)
    THEN Raised("InvalidSignatureError", "bad-signature")
    ELSE LET p == token.payload
             has(k) == k \in DOMAIN p
         IN IF has("iat") /\ ~IsIntLike(p["iat"])
            THEN Raised("InvalidIssuedAtError", "malformed")
            ELSE IF has("iat") /\ IntOf(p["iat"]) > t
            THEN Raised("ImmatureSignatureError", "malformed")
            ELSE IF has("nbf") /\ ~IsIntLike(p["nbf"])
            THEN Raised("DecodeError", "malformed")
            ELSE IF has("nbf") /\ IntOf(p["nbf"]) > t
            THEN Raised("ImmatureSignatureError", "malformed")
            ELSE IF has("exp") /\ ~IsIntLike(p["exp"])
            THEN Raised("DecodeError", "malformed")
            ELSE IF has("exp") /\ IntOf(p["exp"]) <= t
            THEN Raised("ExpiredSignatureError", "expired")
            ELSE IF has("aud")
            THEN Raised("InvalidAudienceError", "malformed")
            ELSE Returned(p)

\* decode as it would be with signature and claim verification switched off
decodeUnverified(self, tok, t) ==
    IF tok.malformed THEN Raised("ValueError", "DecodeError")
    ELSE Returned(tok.payload)

\* JWTHandler.decode: the payload, or ValueError wrapping whatever PyJWT
\* raised
decode(self, tok, t) ==
    LET r == PyJWTDecode(tok, b64decode(self.secret_key), {self.algorithm}, t)
    IN IF r.state = "raised" THEN Raised("ValueError", r.exc) ELSE r

\* request bodies a client posts; the credential field carries what the
\* client typed
RegisterRequests ==
    {[username |-> u, email |-> e, password_hash |-> Plain(p)] :
        u \in Usernames, e \in Emails, p \in RawPasswords}
\* register bodies with one field empty, and one with a field missing
EmptyFieldRequests ==
    {[username |-> "", email |-> "a@x.com", password_hash |-> Plain("pw1")],
     [username |-> "alice", email |-> "", password_hash |-> Plain("pw1")],
     [username |-> "alice", email |-> "a@x.com", password_hash |-> Plain("")]}
IncompleteBodies == {[username |-> "alice", password_hash |-> Plain("pw1")]}
RegisterBodies == RegisterRequests \cup EmptyFieldRequests \cup IncompleteBodies

\* models/requests.py: RegisterRequest declares three required str fields
\* and no constraint on them; pydantic accepts a body that has all three,
\* the empty string included.
RegisterRequestFields == {"username", "email", "password_hash"}
RegisterRequestValidates(body) == RegisterRequestFields \subseteq DOMAIN body

\* RegisterRequest objects handed to the repository directly, their
\* password_hash already encoded
HashedRegisterRequests ==
    {[username |-> u, email |-> e, password_hash |-> Bcrypt(1, "pw1")] :
        u \in Usernames, e \in Emails}
LoginRequests ==
    {[username |-> u, hashed_password |-> Plain(p)] :
        u \in Usernames, p \in RawPasswords}

----------------------------------------------------------------------------
(* State *)

VARIABLES
    users,        \* committed rows of the users table
    next_id,      \* the id sequence of the users table
    pc,           \* where each request handler stands
    kind,         \* the operation each request runs
    arg,          \* its input (a RegisterRequest or a LoginRequest)
    fault,        \* the await at which this request's connection broke, if any
    session,      \* its AsyncSession: pending objects (new), rows of the open
                  \* transaction (tx), persistent objects (identity), connection
    result,       \* what the operation returned or raised to its caller
    checked_out,  \* connections checked out of the SQLAlchemy pool
    waited,       \* ticks each request has waited for a connection
    client,       \* DatabaseClient.client: the asyncpg pool, or not connected
    now,          \* wall clock of the token model
    token,        \* the token under validation
    decoded,      \* what JWTHandler.decode last returned or raised
    log           \* the records the logging module has been handed

store_vars == <<users, next_id>>
req_vars == <<pc, kind, arg, fault, session, result>>
pool_vars == <<checked_out, waited, client>>
jwt_vars == <<now, token, decoded>>
vars == <<users, next_id, pc, kind, arg, fault, session, result,
          checked_out, waited, client, now, token, decoded, log>>

EmptySession == [new |-> {}, tx |-> {}, identity |-> {}, conn |-> FALSE]

\* A connection can break at any await that talks to the server; `broke`
\* below is the environment's choice at that await.

----------------------------------------------------------------------------
(* Logging: main.py configures the root logger at INFO; create_async_engine *)
(* is given echo=True, which makes the engine log each statement and its   *)
(* parameters at INFO.                                                     *)

\* A log record: the logger, the level, the fixed text of the message, and
\* the values formatted into it, by name.
LogRecord(logger, level, message, parameters) ==
    [logger |-> logger, level |-> level, message |-> message,
     parameters |-> parameters]

\* the engine's echo of a statement: the SQL, then repr of its parameters
\* (hide_parameters is left at its default, False)
EngineEcho(statement, parameters) ==
    LogRecord("sqlalchemy.engine.Engine", "INFO", statement, parameters)

\* str(e) of the exception a statement raised: a DBAPI error the server
\* answered with carries "[SQL: ...] [parameters: ...]" of the statement; a
\* connection that broke before the statement ran, the pool's TimeoutError
\* and a TypeError carry no parameters.
ExceptionParameters(res, parameters) ==
    IF res.state = "raised" /\ res.exc = "IntegrityError" THEN parameters
    ELSE NoArg

----------------------------------------------------------------------------
(* The users table (models/orm.py) as PostgreSQL keeps it *)

\* UniqueViolation as it would be were email not declared unique
UniqueViolationUsernameOnly(rows, obj) ==
    IF \E row \in rows : row.username = obj.username THEN "username" ELSE ""

\* The unique constraint an INSERT of obj violates against the committed
\* rows, "" when none; users_username_key is checked first (it is created
\* first).
UniqueViolation(rows, obj) ==
    IF \E row \in rows : row.username = obj.username THEN "username"
    ELSE IF \E row \in rows : row.email = obj.email THEN "email"
    ELSE ""

\* An INSERT waits while another open transaction holds an uncommitted row
\* with the same username or email.
BlockedBy(r, obj) ==
    {q \in Requests \ {r} :
        \E row \in session[q].tx :
            row.username = obj.username \/ row.email = obj.email}

\* User(**dict(user_data)): the declarative constructor accepts exactly the
\* mapped attributes as keywords.
UserConstructorAccepts(user_data) == DOMAIN user_data \subseteq UserColumns

\* the row INSERT ... RETURNING id writes for a pending object
RowOf(obj, id) ==
    [id |-> id, username |-> obj.username, email |-> obj.email,
     password_hash |-> obj.password_hash]

----------------------------------------------------------------------------
(* The SQLAlchemy engine's pool (utils/bootstrap.py, initialize_database) *)

PoolCapacity == pool_size + max_overflow

\* ReleaseConnection as it would be were the connection not given back
ReleaseConnectionLeaks(r) == checked_out

\* what closing, committing or rolling back does to the pool count
ReleaseConnection(r) ==
    IF session[r].conn THEN checked_out - 1 ELSE checked_out

\* The session of request r takes a connection for its next statement.
session_checkout(r) ==
    /\ pc[r] \in {"flush", "refresh", "execute"}
    /\ ~session[r].conn
    /\ checked_out < PoolCapacity
    /\ session' = [session EXCEPT ![r].conn = TRUE]
    /\ checked_out' = checked_out + 1
    /\ waited' = [waited EXCEPT ![r] = 0]
    /\ UNCHANGED <<store_vars, pc, kind, arg, fault, result, client, jwt_vars, log>>

\* request r wants a connection and the pool has none to give
PoolWaiting(r) ==
    /\ pc[r] \in {"flush", "refresh", "execute"}
    /\ ~session[r].conn
    /\ checked_out >= PoolCapacity

\* QueuePool gives up after pool_timeout: TimeoutError is raised inside the
\* awaiting statement (commit and refresh stand in create_user's try block,
\* get_user logs and raises again)
pool_timeout_expire(r) ==
    /\ PoolWaiting(r)
    /\ waited[r] >= pool_timeout
    /\ result' = [result EXCEPT ![r] = Raised("TimeoutError", "")]
    /\ fault' = [fault EXCEPT ![r] = "timeout"]
    /\ pc' = [pc EXCEPT ![r] = IF pc[r] = "execute" THEN "exit" ELSE "except"]
    /\ waited' = [waited EXCEPT ![r] = 0]
    /\ log' = IF pc[r] = "execute"
              THEN log \cup {LogRecord("root", "ERROR",
                                       "Error retrieving user", NoArg)}
              ELSE log
    /\ UNCHANGED <<store_vars, kind, arg, session, checked_out, client, jwt_vars>>

----------------------------------------------------------------------------
(* DatabaseClient (core/database.py) over an asyncpg pool *)

\* connect lines 48-71: create the pool and run the test query; on any
\* failure the client stays unset and the exception is raised
connect ==
    /\ ~client.connected
    /\ \E broke \in BOOLEAN :
          client' = [connected |-> ~broke, held |-> 0]
    /\ UNCHANGED <<store_vars, req_vars, checked_out, waited, jwt_vars, log>>

FetchTypes == {"all", "one", "val", "none"}

\* execute_query / execute_transaction up to the acquire: lines 109-113,
\* 144-149
execute_query(r) ==
    /\ pc[r] = "idle"
    /\ \E k \in {"execute_query", "execute_transaction"},
          f \in {"val", "bogus"} :
          /\ kind' = [kind EXCEPT ![r] = k]
          /\ arg' = [arg EXCEPT ![r] = [query |-> "SELECT 1", fetch |-> f]]
    /\ IF ~client.connected
       THEN /\ result' = [result EXCEPT ![r] = Raised("RuntimeError", "")]
            /\ pc' = [pc EXCEPT ![r] = "done"]
       ELSE /\ result' = [result EXCEPT ![r] = NoResult]
            /\ pc' = [pc EXCEPT ![r] = "acquire"]
    /\ fault' = [fault EXCEPT ![r] = "none"]
    /\ UNCHANGED <<store_vars, session, pool_vars, jwt_vars, log>>

\* request r wants a connection and the asyncpg pool has none to give
ClientWaiting(r) == pc[r] = "acquire" /\ client.held >= max_size

\* self.client.acquire(): no timeout is passed, the call returns when a
\* connection is free
client_acquire(r) ==
    /\ pc[r] = "acquire"
    /\ client.held < max_size
    /\ client' = [client EXCEPT !.held = @ + 1]
    /\ pc' = [pc EXCEPT ![r] = "query"]
    /\ waited' = [waited EXCEPT ![r] = 0]
    /\ UNCHANGED <<store_vars, kind, arg, fault, session, result, checked_out,
                   jwt_vars, log>>

\* lines 114-131 (150-170): run the statement; leaving the async with
\* block releases the connection, whether by return or by exception; the
\* except clause logs the error (execute_query also the query and its
\* params, here the empty tuple)
execute_query_run(r) ==
    /\ pc[r] = "query"
    /\ \E broke \in BOOLEAN :
          /\ result' = [result EXCEPT ![r] =
                IF arg[r].fetch \notin FetchTypes THEN Raised("ValueError", "")
                ELSE IF broke THEN Raised("PostgresError", "")
                ELSE Returned(1)]
          /\ fault' = [fault EXCEPT ![r] =
                IF broke /\ arg[r].fetch \in FetchTypes THEN "query" ELSE "none"]
    /\ log' = IF result'[r].state # "raised" THEN log
              ELSE IF kind[r] = "execute_transaction"
              THEN log \cup {LogRecord("core.database", "ERROR",
                                       "Transaction failed", NoArg)}
              ELSE log \cup {LogRecord("core.database", "ERROR", m, NoArg) :
                                m \in {"Query execution failed", "Query",
                                       "Params"}}
    /\ client' = [client EXCEPT !.held = @ - 1]
    /\ pc' = [pc EXCEPT ![r] = "done"]
    /\ UNCHANGED <<store_vars, kind, arg, session, checked_out, waited, jwt_vars>>

\* get_connection used as its docstring shows, `async with
\* db.get_connection() as conn`: get_connection is a coroutine function, so
\* the async with receives a coroutine object, which is no context manager;
\* nothing is acquired
get_connection(r) ==
    /\ pc[r] = "idle"
    /\ kind' = [kind EXCEPT ![r] = "get_connection"]
    /\ arg' = [arg EXCEPT ![r] = NoArg]
    /\ result' = [result EXCEPT ![r] = Raised("TypeError", "")]
    /\ fault' = [fault EXCEPT ![r] = "none"]
    /\ pc' = [pc EXCEPT ![r] = "done"]
    /\ UNCHANGED <<store_vars, session, pool_vars, jwt_vars, log>>

\* Time passes for the requests that wait for a connection. A QueuePool
\* waiter is woken at pool_timeout; an asyncpg waiter has no deadline.
pool_tick ==
    /\ \E r \in Requests : PoolWaiting(r) \/ ClientWaiting(r)
    /\ \A r \in Requests : PoolWaiting(r) => waited[r] < pool_timeout
    /\ \A r \in Requests : ClientWaiting(r) => waited[r] < MaxWait
    /\ waited' = [r \in Requests |->
          IF PoolWaiting(r) \/ ClientWaiting(r) THEN waited[r] + 1
          ELSE waited[r]]
    /\ UNCHANGED <<store_vars, req_vars, checked_out, client, jwt_vars, log>>

----------------------------------------------------------------------------
(* UserRepository.create_user, one await at a time *)

\* lines 16-18: build the User from the request and add it to the session
create_user_add(r, user_data) ==
    IF UserConstructorAccepts(user_data)
    THEN /\ session' = [session EXCEPT ![r].new = {user_data}]
         /\ pc' = [pc EXCEPT ![r] = "flush"]
         /\ result' = [result EXCEPT ![r] = NoResult]
    ELSE /\ session' = session
         /\ pc' = [pc EXCEPT ![r] = "except"]
         /\ result' = [result EXCEPT ![r] = Raised("TypeError", "")]

\* A handler that was given a session calls create_user(user_data), with
\* user_data one of `inputs`.
create_user_call(r, inputs) ==
    /\ pc[r] = "idle"
    /\ \E user_data \in inputs :
          /\ kind' = [kind EXCEPT ![r] = "create_user"]
          /\ arg' = [arg EXCEPT ![r] = user_data]
          /\ create_user_add(r, user_data)
    /\ fault' = [fault EXCEPT ![r] = "none"]
    /\ UNCHANGED <<store_vars, pool_vars, jwt_vars, log>>

create_user(r) == create_user_call(r, HashedRegisterRequests)

\* line 19, first half: commit() flushes, the INSERT runs in a transaction;
\* the engine echoes the statement with its parameters before it runs it
commit_flush(r) ==
    /\ pc[r] = "flush"
    /\ session[r].conn
    /\ \E obj \in session[r].new, broke \in BOOLEAN :
          IF broke
          THEN /\ pc' = [pc EXCEPT ![r] = "except"]
               /\ result' = [result EXCEPT ![r] = Raised("OperationalError", "")]
               /\ fault' = [fault EXCEPT ![r] = "flush"]
               /\ UNCHANGED <<session, store_vars, log>>
          ELSE /\ BlockedBy(r, obj) = {}
               /\ log' = log \cup {EngineEcho("INSERT INTO users", obj)}
               /\ fault' = fault
               /\ next_id' = next_id + 1
               /\ users' = users
               /\ IF UniqueViolation(users, obj) # ""
                  THEN /\ pc' = [pc EXCEPT ![r] = "except"]
                       /\ result' = [result EXCEPT ![r] =
                              Raised("IntegrityError", UniqueViolation(users, obj))]
                       /\ session' = session
                  ELSE /\ pc' = [pc EXCEPT ![r] = "commit"]
                       /\ result' = result
                       /\ session' = [session EXCEPT
                              ![r].tx = {RowOf(obj, next_id)}]
    /\ UNCHANGED <<kind, arg, pool_vars, jwt_vars>>

\* line 19, second half: COMMIT makes the row visible and the session gives
\* its connection back
commit_commit(r) ==
    /\ pc[r] = "commit"
    /\ \E broke \in BOOLEAN :
       IF broke
       THEN /\ pc' = [pc EXCEPT ![r] = "except"]
            /\ result' = [result EXCEPT ![r] = Raised("OperationalError", "")]
            /\ fault' = [fault EXCEPT ![r] = "commit"]
            /\ UNCHANGED <<session, store_vars, checked_out>>
       ELSE /\ fault' = fault
            /\ users' = users \cup session[r].tx
            /\ next_id' = next_id
            /\ session' = [session EXCEPT ![r] =
                    [new |-> {}, tx |-> {}, identity |-> session[r].tx,
                     conn |-> FALSE]]
            /\ checked_out' = ReleaseConnection(r)
            /\ pc' = [pc EXCEPT ![r] = "refresh"]
            /\ result' = result
    /\ UNCHANGED <<kind, arg, waited, client, jwt_vars, log>>

\* line 20: refresh(user) re-reads the committed row on a new connection;
\* line 21 returns it
session_refresh(r) ==
    /\ pc[r] = "refresh"
    /\ session[r].conn
    /\ \E broke \in BOOLEAN :
       IF broke
       THEN /\ pc' = [pc EXCEPT ![r] = "except"]
            /\ result' = [result EXCEPT ![r] = Raised("OperationalError", "")]
            /\ fault' = [fault EXCEPT ![r] = "refresh"]
            /\ log' = log
       ELSE /\ fault' = fault
            /\ log' = log \cup {EngineEcho("SELECT FROM users",
                          [id |-> row.id]) : row \in session[r].identity}
            /\ pc' = [pc EXCEPT ![r] = "exit"]
            /\ result' = [result EXCEPT ![r] = Returned(
                    CHOOSE row \in users : row.username = arg[r].username)]
    /\ UNCHANGED <<store_vars, kind, arg, session, pool_vars, jwt_vars>>

\* lines 22-25: log, roll the session back, raise the same exception
create_user_except(r) ==
    /\ pc[r] = "except"
    /\ session' = [session EXCEPT ![r] =
          [new |-> {}, tx |-> {}, identity |-> session[r].identity,
           conn |-> FALSE]]
    /\ checked_out' = ReleaseConnection(r)
    /\ pc' = [pc EXCEPT ![r] = "exit"]
    /\ log' = log \cup {LogRecord("root", "ERROR", "Error creating user",
                                  ExceptionParameters(result[r], arg[r]))}
    /\ UNCHANGED <<store_vars, kind, arg, fault, result, waited, client, jwt_vars>>

\* get_database_session lines 42-46 once the handler is through: roll back
\* if it raised, close the session in any case
get_database_session_exit(r) ==
    /\ pc[r] = "exit"
    /\ session' = [session EXCEPT ![r] = EmptySession]
    /\ checked_out' = ReleaseConnection(r)
    /\ pc' = [pc EXCEPT ![r] = "done"]
    /\ UNCHANGED <<store_vars, kind, arg, fault, result, waited, client, jwt_vars, log>>

----------------------------------------------------------------------------
(* UserManagementService (services/user_service.py) *)

\* UserRepository.get_user: the rows that match every criterion; first()
\* takes one of them
get_user(rows, filter_criteria) ==
    {row \in rows :
        \A k \in DOMAIN filter_criteria : row[k] = filter_criteria[k]}

\* verify_user lines 29-34, once get_user has answered with `found`
verify_user_check(login_data, found, t) ==
    IF found = {}
    THEN Raised("UserNotFoundException", login_data.username)
    ELSE LET user == CHOOSE row \in found : TRUE
         IN IF ~HasAttr(user, "password")
            THEN Raised("AttributeError", "password")
            ELSE IF ~HasAttr(login_data, "password")
            THEN Raised("AttributeError", "password")
            ELSE LET v == verify_password(user["password"], login_data["password"])
                 IN IF v.raised THEN Raised(v.exc, "")
                    ELSE IF v.value
                    THEN Returned(encode(
                            JWTHandlerOf(JWT_SECRET_KEY, JWT_ALGORITHM),
                            [username |-> JStr(user.username)], t, t))
                    ELSE Raised("UserNotFoundException", login_data.username)

\* verify_user lines 25-28, called as its signature declares: with one
\* LoginRequest. The SELECT of get_user needs a connection.
verify_user_call(r, inputs) ==
    /\ pc[r] = "idle"
    /\ \E login_data \in inputs :
          /\ kind' = [kind EXCEPT ![r] = "verify_user"]
          /\ arg' = [arg EXCEPT ![r] = login_data]
    /\ fault' = [fault EXCEPT ![r] = "none"]
    /\ pc' = [pc EXCEPT ![r] = "execute"]
    /\ log' = log \cup {LogRecord("root", "INFO", "Verifying user",
                                  [username |-> arg'[r].username])}
    /\ UNCHANGED <<store_vars, session, result, pool_vars, jwt_vars>>

verify_user(r) == verify_user_call(r, LoginRequests)

\* get_user lines 30-36 and the rest of verify_user; the engine echoes the
\* SELECT, a failing SELECT is logged and raised again
get_user_execute(r) ==
    /\ pc[r] = "execute"
    /\ session[r].conn
    /\ \E broke \in BOOLEAN :
          /\ result' = [result EXCEPT ![r] =
                IF broke
                THEN Raised("OperationalError", "")
                ELSE verify_user_check(arg[r],
                         get_user(users, [username |-> arg[r].username]), now)]
          /\ fault' = [fault EXCEPT ![r] = IF broke THEN "execute" ELSE "none"]
          /\ log' = log \cup
                (IF broke
                 THEN {LogRecord("root", "ERROR", "Error retrieving user", NoArg)}
                 ELSE {EngineEcho("SELECT FROM users",
                                  [username |-> arg[r].username])})
                \cup
                (IF result'[r].state = "returned"
                 THEN {LogRecord("root", "INFO", "User verified successfully",
                                 [username |-> arg[r].username])}
                 ELSE {})
    /\ pc' = [pc EXCEPT ![r] = "exit"]
    /\ UNCHANGED <<store_vars, kind, arg, session, pool_vars, jwt_vars>>

\* register_user lines 19-21: log the username, hash user_data.password,
\* store it back into user_data.password, hand user_data to create_user
register_user(r, user_data, s) ==
    /\ log' = log \cup {LogRecord("root", "INFO", "Creating user with username",
                                  [username |-> user_data.username])}
    /\ IF ~HasAttr(user_data, "password")
       THEN /\ result' = [result EXCEPT ![r] =
                   Raised("AttributeError", "password")]
            /\ pc' = [pc EXCEPT ![r] = "exit"]
            /\ session' = session
       ELSE create_user_add(r,
               [k \in DOMAIN user_data |->
                   IF k = "password" THEN hash_password(user_data[k], s)
                   ELSE user_data[k]])

----------------------------------------------------------------------------
(* The routers (routers/user_router.py) and the exception handler *)

\* the parameters of verify_user after self
verify_user_params == <<"login_data">>

\* POST /login, lines 21-22: the call passes username and hashed_password
\* as two positional arguments
login(r) ==
    /\ pc[r] = "idle"
    /\ \E login_data \in LoginRequests :
          LET args == <<login_data.username, login_data.hashed_password>>
          IN /\ kind' = [kind EXCEPT ![r] = "login"]
             /\ arg' = [arg EXCEPT ![r] = login_data]
             /\ IF Len(args) # Len(verify_user_params)
                THEN /\ result' = [result EXCEPT ![r] = Raised("TypeError", "")]
                     /\ pc' = [pc EXCEPT ![r] = "exit"]
                ELSE /\ result' = result
                     /\ pc' = [pc EXCEPT ![r] = "execute"]
             /\ log' = log \cup {LogRecord("root", "INFO",
                                 "Attempting to log in user",
                                 [username |-> login_data.username])}
    /\ fault' = [fault EXCEPT ![r] = "none"]
    /\ UNCHANGED <<store_vars, session, pool_vars, jwt_vars>>

\* POST /register, lines 31-39: FastAPI builds user_data from the body
\* (RequestValidationError when the model does not validate), then the
\* route calls register_user
register(r) ==
    /\ pc[r] = "idle"
    /\ \E user_data \in RegisterBodies, s \in Salts :
          /\ kind' = [kind EXCEPT ![r] = "register"]
          /\ arg' = [arg EXCEPT ![r] = user_data]
          /\ IF RegisterRequestValidates(user_data)
             THEN register_user(r, user_data, s)
             ELSE /\ result' = [result EXCEPT ![r] =
                         Raised("RequestValidationError", "")]
                  /\ pc' = [pc EXCEPT ![r] = "exit"]
                  /\ UNCHANGED <<session, log>>
    /\ fault' = [fault EXCEPT ![r] = "none"]
    /\ UNCHANGED <<store_vars, pool_vars, jwt_vars>>

\* What the HTTP caller receives: the route's return value, the 401 of
\* handle_user_not_found_exception (main.py line 20), the framework's 422
\* for a body that does not validate, or its 500 for any other exception.
Response(k, res) ==
    IF res.state = "returned"
    THEN IF k = "login"
         THEN [status |-> 200, message |-> "Login successful", user |-> res.value]
         ELSE [status |-> 200, message |-> "User registered successfully",
               username |-> res.value.username, user_id |-> res.value.id]
    ELSE IF res.exc = "UserNotFoundException"
    THEN [status |-> 401, error |-> "Bad credentials", username |-> res.detail]
    ELSE IF res.exc = "RequestValidationError"
    THEN [status |-> 422, error |-> "Unprocessable Entity"]
    ELSE [status |-> 500, error |-> "Internal Server Error"]

----------------------------------------------------------------------------
(* Specifications *)

InitCommon ==
    /\ users = {}
    /\ next_id = 1
    /\ kind = [r \in Requests |-> ""]
    /\ arg = [r \in Requests |-> NoArg]
    /\ fault = [r \in Requests |-> "none"]
    /\ session = [r \in Requests |-> EmptySession]
    /\ result = [r \in Requests |-> NoResult]
    /\ checked_out = 0
    /\ waited = [r \in Requests |-> 0]
    /\ client = [connected |-> FALSE, held |-> 0]
    /\ now = 0
    /\ token = [jwt |-> NoToken, data |-> << >>]
    /\ decoded = [res |-> NoResult, at |-> 0]
    /\ log = {}

\* Account requests of MaxRacing concurrent handlers.
Init ==
    /\ InitCommon
    /\ pc = [r \in Requests |-> IF r <= MaxRacing THEN "idle" ELSE "off"]

Next ==
    \E r \in Requests :
        \/ login(r)
        \/ register(r)
        \/ verify_user(r)
        \/ get_user_execute(r)
        \/ create_user(r)
        \/ session_checkout(r)
        \/ commit_flush(r)
        \/ commit_commit(r)
        \/ session_refresh(r)
        \/ create_user_except(r)
        \/ get_database_session_exit(r)

Spec == Init /\ [][Next]_vars


----------------------------------------------------------------------------
(* The pools under more requests than they have connections *)

PoolRegisterRequests ==
    {[username |-> u, email |-> "a@x.com", password_hash |-> Bcrypt(1, "pw1")] :
        u \in Usernames}
PoolLoginRequests == {[username |-> "alice", hashed_password |-> Plain("pw1")]}

pool_create_user(r) == create_user_call(r, PoolRegisterRequests)
pool_verify_user(r) == verify_user_call(r, PoolLoginRequests)

PoolInit ==
    /\ InitCommon
    /\ pc = [r \in Requests |-> "idle"]

PoolNext ==
    \/ connect
    \/ pool_tick
    \/ \E r \in Requests :
        \/ pool_create_user(r)
        \/ pool_verify_user(r)
        \/ execute_query(r)
        \/ get_connection(r)
        \/ session_checkout(r)
        \/ pool_timeout_expire(r)
        \/ client_acquire(r)
        \/ execute_query_run(r)
        \/ get_user_execute(r)
        \/ commit_flush(r)
        \/ commit_commit(r)
        \/ session_refresh(r)
        \/ create_user_except(r)
        \/ get_database_session_exit(r)

PoolSpec == PoolInit /\ [][PoolNext]_vars

\* connections out of each pool, counted at their holders
SessionsHolding == {r \in Requests : session[r].conn}
ClientHolding == {r \in Requests : pc[r] = "query"}

\* C9: a store operation that took a connection gives it back on every
\* way out: each pool's count is the number of operations under way that
\* hold one, a finished operation holds none, with every operation finished
\* both counts are zero, and neither count exceeds its pool's maximum.
C9_ConnectionsReleased ==
    /\ checked_out = Cardinality(SessionsHolding)
    /\ client.held = Cardinality(ClientHolding)
    /\ \A r \in Requests : pc[r] \in {"idle", "done"} => ~session[r].conn
    /\ (\A r \in Requests : pc[r] \in {"idle", "done"})
          => checked_out = 0 /\ client.held = 0
    /\ checked_out <= PoolCapacity
    /\ client.held <= max_size

\* C9's case: every operation has finished, one by success, one by a typed
\* failure and one by the fault of finding the pool exhausted.
C9_Witness ==
    /\ \A r \in Requests : pc[r] = "done"
    /\ \E r \in Requests : result[r].state = "returned"
    /\ \E r \in Requests : result[r] = Raised("IntegrityError", "username")
    /\ \E r \in Requests : fault[r] = "timeout"
    /\ checked_out = 0

\* C10: an operation that finds every connection held waits no longer than
\* the pool's timeout; then it has failed with the pool's TimeoutError.
C10_AcquireWaitBounded ==
    \A r \in Requests :
        /\ (PoolWaiting(r) \/ ClientWaiting(r)) => waited[r] <= pool_timeout
        /\ fault[r] = "timeout" => result[r] = Raised("TimeoutError", "")

----------------------------------------------------------------------------
(* What the logs and the error responses carry *)

\* names under which a raw password or a password hash travels
CredentialFields == {"password", "password_hash", "hashed_password"}

\* the raw passwords and password hashes among the values of a mapping
CredentialsIn(mapping) ==
    {mapping[k] : k \in DOMAIN mapping \cap CredentialFields}

\* the error response a finished request got, if it got one
ErrorPayloads ==
    {Response(kind[r], result[r]) :
        r \in {q \in Requests : pc[q] = "done" /\ result[q].state = "raised"}}

\* C11: no log record (the repository's and the database client's error
\* logs and the engine's statement echo included) and no error response
\* carries a raw password or a password hash.
C11_NoCredentialInLogsOrErrors ==
    /\ \A rec \in log : CredentialsIn(rec.parameters) = {}
    /\ \A payload \in ErrorPayloads : CredentialsIn(payload) = {}

----------------------------------------------------------------------------
(* Tokens: issue, tamper, let time pass, validate *)

\* claims mappings handed to encode: string keys, string values
ClaimValues(k) == IF k = "nbf" THEN {JStr("alice"), JStr("0")}
                  ELSE {JStr("alice")}
ClaimKeys == {"username", "exp", "iat", "nbf", "aud"}
ClaimsMappings ==
    UNION {{f \in [K -> UNION {ClaimValues(k) : k \in K}] :
               \A k \in K : f[k] \in ClaimValues(k)} : K \in SUBSET ClaimKeys}

ClockSteps == {1, JWT_EXPIRE_MINUTES - 2}
NotDecoded == [res |-> NoResult, at |-> 0]

\* some JWTHandler issues a token; the clock may move between the two
\* readings of datetime.now (lines 18 and 19)
jwt_encode ==
    /\ now <= MaxIssueTime
    /\ \E data \in ClaimsMappings, key \in SecretKeys, alg \in Algorithms,
          d \in {0, 1} :
          /\ token' = [jwt |-> encode(JWTHandlerOf(key, alg), data, now, now + d),
                       data |-> data]
          /\ now' = now + d
    /\ decoded' = NotDecoded
    /\ UNCHANGED <<log, store_vars, req_vars, pool_vars>>

\* a holder of the token rewrites its payload and keeps the signature
jwt_tamper ==
    /\ ~token.jwt.malformed
    /\ token.jwt.sig.msg = token.jwt.payload
    /\ \E p \in {[token.jwt.payload EXCEPT !["exp"] = JNum(MaxTime + 1)],
                 [k \in DOMAIN token.jwt.payload \ {"exp"} |->
                     token.jwt.payload[k]]} :
          token' = [token EXCEPT !.jwt.payload = p]
    /\ decoded' = NotDecoded
    /\ UNCHANGED <<log, store_vars, req_vars, pool_vars, now>>

\* the token is cut short in transit
jwt_garble ==
    /\ ~token.jwt.malformed
    /\ token' = [token EXCEPT !.jwt = NoToken]
    /\ decoded' = NotDecoded
    /\ UNCHANGED <<log, store_vars, req_vars, pool_vars, now>>

tick ==
    /\ now < MaxTime
    /\ \E d \in ClockSteps :
          now' = IF now + d > MaxTime THEN MaxTime ELSE now + d
    /\ decoded' = NotDecoded
    /\ UNCHANGED <<log, store_vars, req_vars, pool_vars, token>>

\* the service's handler validates the token at hand
jwt_decode ==
    /\ decoded' = [res |-> decode(JWTHandlerOf(JWT_SECRET_KEY, JWT_ALGORITHM),
                                  token.jwt, now),
                   at |-> now]
    /\ UNCHANGED <<log, store_vars, req_vars, pool_vars, now, token>>

TokenInit ==
    /\ InitCommon
    /\ pc = [r \in Requests |-> "off"]

TokenNext == jwt_encode \/ jwt_tamper \/ jwt_garble \/ tick \/ jwt_decode

TokenSpec == TokenInit /\ [][TokenNext]_vars

\* the signature of a token verifies under the current key and algorithm
SignatureVerifies(jwt) ==
    /\ ~jwt.malformed
    /\ jwt.alg = JWT_ALGORITHM
    /\ jwt.sig = Sign(b64decode(JWT_SECRET_KEY), JWT_ALGORITHM, jwt.payload)

\* the time is before the token's expiry
BeforeExpiry(jwt, t) ==
    /\ ~jwt.malformed
    /\ "exp" \in DOMAIN jwt.payload
    /\ IsNum(jwt.payload["exp"])
    /\ t < jwt.payload["exp"].num

\* C7: decode returns claims only if the token's signature verifies under
\* the current key and algorithm and the time is before the token's exp;
\* otherwise (expired, other key, tampered, malformed) it raises and
\* returns nothing.
C7_DecodeOnlyValid ==
    /\ decoded.res.state = "returned"
          => SignatureVerifies(token.jwt) /\ BeforeExpiry(token.jwt, decoded.at)
    /\ (/\ decoded.res.state # "pending"
        /\ ~(SignatureVerifies(token.jwt) /\ BeforeExpiry(token.jwt, decoded.at)))
          => /\ decoded.res.state = "raised"
             /\ decoded.res.exc = "ValueError"

\* C7's case: a token with a good signature is refused because it expired.
C7_Witness ==
    /\ SignatureVerifies(token.jwt)
    /\ ~BeforeExpiry(token.jwt, decoded.at)
    /\ decoded.res = Raised("ValueError", "ExpiredSignatureError")

\* the token is what encode made of token.data under the current key and
\* algorithm, and it is validated before its expiry
RoundTrip ==
    /\ decoded.res.state # "pending"
    /\ SignatureVerifies(token.jwt)
    /\ BeforeExpiry(token.jwt, decoded.at)

RegisteredClaims == {"exp", "iat", "nbf", "aud"}

----------------------------------------------------------------------------
(* Claims about login, register and the account store, under Spec *)

\* a stored hash verifies a supplied raw password
PasswordMatches(stored, provided) ==
    /\ stored.fmt = "bcrypt"
    /\ provided.fmt = "plain"
    /\ stored.text = provided.text

\* request r is answered in this step
Answered(r) == pc[r] # "exit" /\ pc'[r] = "exit"

UnknownUsername(login_data, rows) ==
    \A row \in rows : row.username # login_data.username
WrongPassword(login_data, rows) ==
    \E row \in rows :
        /\ row.username = login_data.username
        /\ ~PasswordMatches(row.password_hash, login_data.hashed_password)

\* C1: a login with an unknown username and a login with a known username
\* but a wrong password both fail with UserNotFoundException, and both get
\* the same response: 401, "Bad credentials" and the username sent.
C1_BadLoginsFailAlike ==
    [][\A r \in Requests :
         (/\ Answered(r)
          /\ kind'[r] \in {"login", "verify_user"}
          /\ fault'[r] = "none"
          /\ \/ UnknownUsername(arg'[r], users)
             \/ WrongPassword(arg'[r], users))
         => /\ result'[r] = Raised("UserNotFoundException", arg'[r].username)
            /\ Response("login", result'[r]) =
                 [status |-> 401, error |-> "Bad credentials",
                  username |-> arg'[r].username]]_vars

\* C2: the public login returns a (non-empty) token exactly when an account
\* with that username exists and the supplied password verifies against its
\* stored hash; otherwise it fails with UserNotFoundException carrying the
\* username.
C2_LoginTokenIffVerified ==
    [][\A r \in Requests :
         (Answered(r) /\ kind'[r] = "login" /\ fault'[r] = "none")
         => IF \E row \in users :
                  /\ row.username = arg'[r].username
                  /\ PasswordMatches(row.password_hash, arg'[r].hashed_password)
            THEN /\ result'[r].state = "returned"
                 /\ result'[r].value # NoToken
            ELSE result'[r] =
                   Raised("UserNotFoundException", arg'[r].username)]_vars

\* the INSERT of create_user call r is answered in this step, no fault
InsertAnswered(r) ==
    /\ kind[r] = "create_user"
    /\ pc[r] = "flush"
    /\ pc'[r] # "flush"
    /\ fault'[r] = "none"

UniqueAccounts(rows) ==
    \A a, b \in rows :
        (a.username = b.username \/ a.email = b.email \/ a.id = b.id) => a = b

\* C3: a create_user for the username of an existing account (with another
\* email) fails with the uniqueness error naming username, one for the
\* email of an existing account (with another username) fails with the one
\* naming email; the error reaches the caller unchanged, no row is added,
\* and usernames and emails stay unique.
C3_DuplicateRejected ==
    [][\A r \in Requests :
         /\ (/\ InsertAnswered(r)
             /\ \E row \in users : /\ row.username = arg[r].username
                                   /\ row.email # arg[r].email)
            => /\ result'[r] = Raised("IntegrityError", "username")
               /\ users' = users
         /\ (/\ InsertAnswered(r)
             /\ \E row \in users : /\ row.email = arg[r].email
                                   /\ row.username # arg[r].username
             /\ \A row \in users : row.username # arg[r].username)
            => /\ result'[r] = Raised("IntegrityError", "email")
               /\ users' = users
         /\ (pc[r] = "except" /\ pc'[r] # "except")
            => /\ result'[r] = result[r]
               /\ users' = users
         /\ (pc[r] = "exit" /\ pc'[r] # "exit")
            => /\ result'[r] = result[r]
               /\ users' = users
         /\ UniqueAccounts(users')]_vars

\* C3's case: a create_user has failed on the username of a committed
\* account that has another email, and the caller holds the error.
C3_Witness ==
    \E r \in Requests :
        /\ kind[r] = "create_user"
        /\ pc[r] = "done"
        /\ result[r] = Raised("IntegrityError", "username")
        /\ \E row \in users : /\ row.username = arg[r].username
                              /\ row.email # arg[r].email

\* C4: of two concurrent register requests with the same username exactly
\* one succeeds and the other fails with the uniqueness error; the store
\* ends with exactly one account of that username.
C4_RacingRegistersOneWins ==
    \A r, q \in Requests :
        (/\ r # q
         /\ kind[r] = "register" /\ kind[q] = "register"
         /\ pc[r] = "done" /\ pc[q] = "done"
         /\ fault[r] = "none" /\ fault[q] = "none"
         /\ arg[r].username = arg[q].username)
        => /\ \/ result[r].state = "returned" /\ result[q].state = "raised"
              \/ result[q].state = "returned" /\ result[r].state = "raised"
           /\ \A x \in {r, q} :
                 result[x].state = "raised" => result[x].exc = "IntegrityError"
           /\ Cardinality({row \in users :
                              row.username = arg[r].username}) = 1

\* The same race one level down, between two create_user calls the store
\* answers without a connection fault: exactly one returns, the other
\* raises the uniqueness error, one row carries the username.
RacingCreatesOneWins ==
    \A r, q \in Requests :
        (/\ r # q
         /\ kind[r] = "create_user" /\ kind[q] = "create_user"
         /\ pc[r] = "done" /\ pc[q] = "done"
         /\ fault[r] = "none" /\ fault[q] = "none"
         /\ arg[r].username = arg[q].username)
        => /\ \/ result[r].state = "returned" /\ result[q].state = "raised"
              \/ result[q].state = "returned" /\ result[r].state = "raised"
           /\ \A x \in {r, q} :
                 result[x].state = "raised" => result[x].exc = "IntegrityError"
           /\ Cardinality({row \in users :
                              row.username = arg[r].username}) = 1

\* C5: when create_user has raised to its caller, the row of that request
\* is not in the store (whatever the step that failed), and the rows of an
\* open transaction are not visible to readers.
C5_FailedCreateLeavesNoRow ==
    /\ \A r \in Requests :
          (pc[r] = "exit" /\ result[r].state = "raised")
          => session[r].identity \cap users = {}
    /\ \A r \in Requests : session[r].tx \cap users = {}

HasEmptyField(body) ==
    \/ HasAttr(body, "username") /\ body.username = ""
    \/ HasAttr(body, "email") /\ body.email = ""
    \/ HasAttr(body, "password_hash") /\ body.password_hash.text = ""

\* C12: a register request with an empty username, email or raw password
\* is rejected at validation (the 422 of a body that does not validate):
\* nothing is hashed, no session takes the request's object, the store is
\* not touched, and no account has an empty username or email.
C12_EmptyFieldRejectedAtValidation ==
    [][\A r \in Requests :
         /\ (/\ pc[r] = "idle"
             /\ kind'[r] = "register"
             /\ HasEmptyField(arg'[r]))
            => /\ result'[r] = Raised("RequestValidationError", "")
               /\ Response("register", result'[r]).status = 422
               /\ session'[r] = EmptySession
               /\ users' = users
               /\ next_id' = next_id
         /\ \A row \in users' : row.username # "" /\ row.email # ""]_vars

====
